---------------------------- MODULE Spec2Model ----------------------------
(***************************************************************************)
(* A model of ssl_exporter.go: the probe endpoint (probeHandler), the      *)
(* metric derivation pass (Exporter.Collect), certificate deduplication    *)
(* (uniq / contains), the verified-chain ranking (sort.Slice with the      *)
(* effective-expiry comparator) and the label helpers.                     *)
(*                                                                         *)
(* Numbers.  TLC integers are 32 bits wide, while the program handles      *)
(* 64-bit nanosecond counts.  A wide number is therefore kept as limbs in  *)
(* base 10^9, most significant first: <<a, b, c>> is a*10^18 + b*10^9 + c. *)
(* In that base "multiply by 1e9" is a shift by one limb and "divide by    *)
(* 1e9, truncating" is dropping the last limb, so the arithmetic of        *)
(* UnixNano()/1e9 is exact, with the real 2^64 wrap-around.                *)
(***************************************************************************)
EXTENDS Integers, Sequences, FiniteSets, TLC

VARIABLES
    pc,          \* "idle": waiting for a request; "done": response written
    request,     \* the request being served: [module, target, timeoutHeader]
    status,      \* HTTP status code of the response (0: none yet)
    body,        \* error text written by http.Error ("" when metrics served)
    exporter,    \* the Exporter built at lines 261-266, or NoExporter
    probeCalls,  \* how many times e.prober was invoked (line 89)
    result,      \* what e.prober returned: [err, state], or NoResult
    ranked,      \* verifiedChains after sort.Slice: a permutation of the
                 \* input's indices (ranked[k] = input index at position k)
    samples,     \* the metrics sent on ch, in order
    uniqIn,      \* uniq's argument certs (specification SpecUniq)
    uniqR,       \* uniq's return value r (SpecUniq)
    upc          \* "call" | "returned" (SpecUniq)

vars == <<pc, request, status, body, exporter, probeCalls, result, ranked,
          samples, uniqIn, uniqR, upc>>

(***************************************************************************)
(* Bounds of the model.                                                    *)
(***************************************************************************)
MaxPeerCerts == 2   \* longest peer certificate chain the probe returns
MaxChains == 2      \* most verified chains the probe returns
MaxUniqLen == 3     \* longest argument of uniq in SpecUniq

(***************************************************************************)
(* Wide arithmetic.                                                        *)
(***************************************************************************)
\* The literal 1e9 of UnixNano()/1e9; also the limb base.
E9 == 1000000000

\* 2^63 and 2^64 in limbs.
Two63 == <<9, 223372036, 854775808>>

Two64 == <<18, 446744073, 709551616>>

Lt3(x, y) ==
    \/ x[1] < y[1]
    \/ x[1] = y[1] /\ x[2] < y[2]
    \/ x[1] = y[1] /\ x[2] = y[2] /\ x[3] < y[3]

\* x - y for x >= y.
Sub3(x, y) ==
    LET d3 == x[3] - y[3]
        b3 == IF d3 < 0 THEN 1 ELSE 0
        d2 == x[2] - y[2] - b3
        b2 == IF d2 < 0 THEN 1 ELSE 0
        d1 == x[1] - y[1] - b2
    IN  <<d1, d2 + b2 * E9, d3 + b3 * E9>>

RECURSIVE Mod64(_)
\* x mod 2^64 for a non-negative x.
Mod64(x) == IF Lt3(x, Two64) THEN x ELSE Mod64(Sub3(x, Two64))

\* A signed number [neg, mag] reduced to what an int64 holds: the value
\* congruent to it modulo 2^64 that lies in [-2^63, 2^63).
Int64Wrap(v) ==
    LET m == Mod64(v.mag)
        u == IF v.neg /\ m # <<0, 0, 0>> THEN Sub3(Two64, m) ELSE m
    IN  IF Lt3(u, Two63)
        THEN [neg |-> FALSE, mag |-> u]
        ELSE [neg |-> TRUE, mag |-> Sub3(Two64, u)]

\* Go's int64 division x / 1e9: the quotient truncated toward zero.
DivE9(v) ==
    [neg |-> v.neg /\ <<v.mag[1], v.mag[2]>> # <<0, 0>>,
     hi |-> v.mag[1], lo |-> v.mag[2]]

\* A small integer as a sample value.
Gauge(n) == [neg |-> FALSE, hi |-> 0, lo |-> n]

(***************************************************************************)
(* time.Time: seconds since January 1, year 1 (two limbs hi, lo) and       *)
(* nanoseconds within the second.                                          *)
(***************************************************************************)
ZeroTime == [hi |-> 0, lo |-> 0, nsec |-> 0]

\* Seconds from year 1 to 1970 (time.unixToInternal = 62135596800).
UnixToInternal == <<0, 62, 135596800>>

IsZero(t) == t.hi = 0 /\ t.lo = 0 /\ t.nsec = 0

Before(t, u) == Lt3(<<t.hi, t.lo, t.nsec>>, <<u.hi, u.lo, u.nsec>>)

After(t, u) == Before(u, t)

\* The seconds of t relative to the Unix epoch, signed: [neg, mag].
UnixSec(t) ==
    LET a == <<0, t.hi, t.lo>>
    IN  IF Lt3(a, UnixToInternal)
        THEN [neg |-> TRUE, mag |-> Sub3(UnixToInternal, a)]
        ELSE [neg |-> FALSE, mag |-> Sub3(a, UnixToInternal)]

\* unixSec*1e9 + nsec as a mathematical integer (no wrap-around).
ExactNanos(t) ==
    LET s == UnixSec(t)
    IN  IF ~s.neg
        THEN [neg |-> FALSE, mag |-> <<s.mag[2], s.mag[3], t.nsec>>]
        ELSE IF t.nsec = 0
        THEN [neg |-> TRUE, mag |-> <<s.mag[2], s.mag[3], 0>>]
        ELSE LET s1 == Sub3(s.mag, <<0, 0, 1>>)
             IN  [neg |-> TRUE, mag |-> <<s1[2], s1[3], E9 - t.nsec>>]

\* Time.UnixNano(): int64(unixSec)*1e9 + int64(nsec) in int64 arithmetic.
UnixNano(t) == Int64Wrap(ExactNanos(t))

\* float64(t.UnixNano()/1e9).  The quotient is below 2^53 in magnitude, so
\* the conversion to float64 changes nothing.
EpochValue(t) == DivE9(UnixNano(t))

(***************************************************************************)
(* Decimal formatting: strconv.Itoa and big.Int.String on naturals.        *)
(***************************************************************************)
Digits == <<"0", "1", "2", "3", "4", "5", "6", "7", "8", "9">>

RECURSIVE Itoa(_)
Itoa(n) == IF n < 10 THEN Digits[n + 1] ELSE Itoa(n \div 10) \o Digits[(n % 10) + 1]

RECURSIVE Join(_, _)
\* strings.Join(elems, sep)
Join(elems, sep) ==
    IF Len(elems) = 0 THEN ""
    ELSE IF Len(elems) = 1 THEN elems[1]
    ELSE elems[1] \o sep \o Join(Tail(elems), sep)

\* net.IP.String() of an IPv4 address, kept as its four bytes.
IPString(ip) ==
    Itoa(ip[1]) \o "." \o Itoa(ip[2]) \o "." \o Itoa(ip[3]) \o "." \o Itoa(ip[4])

(***************************************************************************)
(* Metric descriptors (lines 22-62).                                       *)
(***************************************************************************)
namespace == "ssl"

\* prometheus.BuildFQName: the non-empty parts joined by "_".
BuildFQName(ns, subsystem, name) ==
    IF name = "" THEN ""
    ELSE IF ns # "" /\ subsystem # "" THEN ns \o "_" \o subsystem \o "_" \o name
    ELSE IF ns # "" THEN ns \o "_" \o name
    ELSE IF subsystem # "" THEN subsystem \o "_" \o name
    ELSE name

NewDesc(fqName, variableLabels) ==
    [fqName |-> fqName, variableLabels |-> variableLabels]

CertLabels == <<"serial_no", "issuer_cn", "cn", "dnsnames", "ips", "emails", "ou">>

tlsConnectSuccess == NewDesc(BuildFQName(namespace, "", "tls_connect_success"), <<>>)

tlsVersion == NewDesc(BuildFQName(namespace, "", "tls_version_info"), <<"version">>)

proberType == NewDesc(BuildFQName(namespace, "", "prober"), <<"prober">>)

notBefore == NewDesc(BuildFQName(namespace, "", "cert_not_before"), CertLabels)

notAfter == NewDesc(BuildFQName(namespace, "", "cert_not_after"), CertLabels)

verifiedNotBefore ==
    NewDesc(BuildFQName(namespace, "", "verified_cert_not_before"),
            <<"chain_no">> \o CertLabels)

verifiedNotAfter ==
    NewDesc(BuildFQName(namespace, "", "verfied_cert_not_after"),
            <<"chain_no">> \o CertLabels)

\* prometheus.MustNewConstMetric(desc, GaugeValue, value, labelValues...)
MustNewConstMetric(desc, value, labelValues) ==
    [name |-> desc.fqName, labelNames |-> desc.variableLabels,
     labelValues |-> labelValues, value |-> value]

(***************************************************************************)
(* Label helpers (lines 297-346).                                          *)
(***************************************************************************)
getTLSVersion(state) ==
    CASE state.Version = 769 -> "TLS 1.0"
      [] state.Version = 770 -> "TLS 1.1"
      [] state.Version = 771 -> "TLS 1.2"
      [] state.Version = 772 -> "TLS 1.3"
      [] OTHER -> "unknown"

getDNSNames(cert) ==
    IF Len(cert.DNSNames) > 0 THEN "," \o Join(cert.DNSNames, ",") \o "," ELSE ""

getEmailAddresses(cert) ==
    IF Len(cert.EmailAddresses) > 0
    THEN "," \o Join(cert.EmailAddresses, ",") \o "," ELSE ""

RECURSIVE ipsLoop(_, _)
ipsLoop(addrs, ips) ==
    IF addrs = <<>> THEN ips
    ELSE ipsLoop(Tail(addrs), ips \o IPString(Head(addrs)) \o ",")

getIPAddresses(cert) ==
    IF Len(cert.IPAddresses) > 0 THEN ipsLoop(cert.IPAddresses, ",") ELSE ""

getOrganizationalUnits(cert) ==
    IF Len(cert.OrganizationalUnit) > 0
    THEN "," \o Join(cert.OrganizationalUnit, ",") \o "," ELSE ""

(***************************************************************************)
(* uniq and contains (lines 276-295).                                      *)
(***************************************************************************)
\* Faulty variant of contains: compares whole certificates, not Identity Keys.
containsIdentity(cs, cert) ==
    \E i \in 1..Len(cs) : cs[i] = cert

contains(cs, cert) ==
    \E i \in 1..Len(cs) :
        /\ Itoa(cs[i].SerialNumber) = Itoa(cert.SerialNumber)
        /\ cs[i].IssuerCN = cert.IssuerCN

RECURSIVE uniqLoop(_, _)
\* The loop of uniq: acc is r, cs the certificates not yet visited.
uniqLoop(cs, acc) ==
    IF cs = <<>> THEN acc
    ELSE uniqLoop(Tail(cs),
                  IF ~contains(acc, Head(cs)) THEN Append(acc, Head(cs)) ELSE acc)

\* Faulty variant of uniq: drops nothing.
uniqKeepAll(cs) == cs

uniq(cs) == uniqLoop(cs, <<>>)

(***************************************************************************)
(* The ranking of verified chains (lines 156-175).                         *)
(***************************************************************************)
RECURSIVE expiryLoop(_, _)
\* The loop computing iExpiry (lines 161-166) and jExpiry (167-172).
expiryLoop(chain, expiry) ==
    IF chain = <<>> THEN expiry
    ELSE expiryLoop(Tail(chain),
             IF (IsZero(expiry) \/ Before(Head(chain).NotAfter, expiry))
                /\ ~IsZero(Head(chain).NotAfter)
             THEN Head(chain).NotAfter ELSE expiry)

\* Faulty variant of less: Before in place of After.
lessAscending(verifiedChains, i, j) ==
    Before(expiryLoop(verifiedChains[i], ZeroTime),
           expiryLoop(verifiedChains[j], ZeroTime))

\* The comparator handed to sort.Slice.
less(verifiedChains, i, j) ==
    After(expiryLoop(verifiedChains[i], ZeroTime),
          expiryLoop(verifiedChains[j], ZeroTime))

IndexPermutations(n) ==
    {p \in [1..n -> 1..n] : \A a, b \in 1..n : a # b => p[a] # p[b]}

\* sort.Slice(verifiedChains, less): the slice is left in some order in which
\* no element is less than one placed before it.  The sort is documented as
\* not stable, so every such order is a possible outcome.  An outcome is the
\* sequence of input indices in their new order.
SortSlice(verifiedChains) ==
    {p \in IndexPermutations(Len(verifiedChains)) :
        \A a, b \in 1..Len(verifiedChains) :
            a < b => ~less(verifiedChains, p[b], p[a])}

\* The slice after the sort, given the outcome p.
Reordered(verifiedChains, p) == [k \in 1..Len(verifiedChains) |-> verifiedChains[p[k]]]

(***************************************************************************)
(* The metric derivation pass, Exporter.Collect (lines 84-217).            *)
(***************************************************************************)
\* Lines 85-87.
ProberMetric(e) == MustNewConstMetric(proberType, Gauge(1), <<e.module.Prober>>)

\* Faulty variant of ProbeErrorMetrics: reports success.
ProbeErrorMetricsSuccess == <<MustNewConstMetric(tlsConnectSuccess, Gauge(1), <<>>)>>

\* Lines 90-96: what is sent when the probe returned an error.
ProbeErrorMetrics == <<MustNewConstMetric(tlsConnectSuccess, Gauge(0), <<>>)>>

\* Lines 99-101.
VersionMetric(state) ==
    MustNewConstMetric(tlsVersion, Gauge(1), <<getTLSVersion(state)>>)

\* Faulty variant of NoCertificatesMetrics: reports success.
NoCertificatesMetricsSuccess == <<MustNewConstMetric(tlsConnectSuccess, Gauge(1), <<>>)>>

\* Lines 105-111: what is sent when the connection state holds no certificate.
NoCertificatesMetrics == <<MustNewConstMetric(tlsConnectSuccess, Gauge(0), <<>>)>>

\* The label values shared by the four certificate metrics.
CertLabelValues(cert) ==
    <<Itoa(cert.SerialNumber), cert.IssuerCN, cert.SubjectCN, getDNSNames(cert),
      getIPAddresses(cert), getEmailAddresses(cert), getOrganizationalUnits(cert)>>

\* Lines 124-152: the body of the loop over the peer certificates.
PeerCertMetrics(cert) ==
    (IF ~IsZero(cert.NotAfter)
     THEN <<MustNewConstMetric(notAfter, EpochValue(cert.NotAfter),
                               CertLabelValues(cert))>>
     ELSE <<>>)
    \o
    (IF ~IsZero(cert.NotBefore)
     THEN <<MustNewConstMetric(notBefore, EpochValue(cert.NotBefore),
                               CertLabelValues(cert))>>
     ELSE <<>>)

RECURSIVE PeerLoop(_)
\* Lines 123-153.
PeerLoop(peerCertificates) ==
    IF peerCertificates = <<>> THEN <<>>
    ELSE PeerCertMetrics(Head(peerCertificates)) \o PeerLoop(Tail(peerCertificates))

\* Lines 182-214: the body of the loop over one verified chain; i is the
\* 0-based index of the chain in the sorted slice.
VerifiedCertMetrics(i, cert) ==
    LET chainNo == Itoa(i)
    IN  (IF ~IsZero(cert.NotAfter)
         THEN <<MustNewConstMetric(verifiedNotAfter, EpochValue(cert.NotAfter),
                                   <<chainNo>> \o CertLabelValues(cert))>>
         ELSE <<>>)
        \o
        (IF ~IsZero(cert.NotBefore)
         THEN <<MustNewConstMetric(verifiedNotBefore, EpochValue(cert.NotBefore),
                                   <<chainNo>> \o CertLabelValues(cert))>>
         ELSE <<>>)

RECURSIVE ChainLoop(_, _)
\* Line 181: the loop over the certificates of one (deduplicated) chain.
ChainLoop(i, chain) ==
    IF chain = <<>> THEN <<>>
    ELSE VerifiedCertMetrics(i, Head(chain)) \o ChainLoop(i, Tail(chain))

RECURSIVE VerifiedLoop(_, _)
\* Lines 179-216: the loop over the sorted chains, from index i on.
VerifiedLoop(verifiedChains, i) ==
    IF i >= Len(verifiedChains) THEN <<>>
    ELSE ChainLoop(i, uniq(verifiedChains[i + 1]))
         \o VerifiedLoop(verifiedChains, i + 1)

\* Whether Collect reaches the sort of line 160 for this probe result.
ReachesSort(res) == ~res.err /\ Len(res.state.PeerCertificates) >= 1

\* Everything Collect sends on ch, in order, for exporter e, probe result res
\* and sort outcome p.
Collect(e, res, p) ==
    IF res.err
    THEN <<ProberMetric(e)>> \o ProbeErrorMetrics
    ELSE IF Len(res.state.PeerCertificates) < 1
    THEN <<ProberMetric(e), VersionMetric(res.state)>> \o NoCertificatesMetrics
    ELSE <<ProberMetric(e), VersionMetric(res.state),
           MustNewConstMetric(tlsConnectSuccess, Gauge(1), <<>>)>>
         \o PeerLoop(uniq(res.state.PeerCertificates))
         \o VerifiedLoop(Reordered(res.state.VerifiedChains, p), 0)

(***************************************************************************)
(* The probe endpoint, probeHandler (lines 219-274).                       *)
(***************************************************************************)
\* conf.Modules: a module bound to a registered prober, and one a
\* configuration file binds to a prober type that is not registered.
Modules == [tcp |-> [Prober |-> "tcp"], legacy |-> [Prober |-> "ftp"]]

\* The keys of prober.Probers.
Probers == {"tcp", "https"}

\* fmt's %q of a string without special characters.
Quote(str) == "\"" \o str \o "\""

DigitChars == {"0", "1", "2", "3", "4", "5", "6", "7", "8", "9"}

DigitValue(c) == CHOOSE d \in 0..9 : Digits[d + 1] = c

RECURSIVE ParseDigits(_, _)
ParseDigits(v, acc) ==
    IF v = <<>> THEN acc ELSE ParseDigits(Tail(v), acc * 10 + DigitValue(Head(v)))

\* strconv.ParseFloat(v, 64) on a header value kept as its characters.  The
\* header values of the model are made of digits and letters only: a run of
\* digits parses to its value, anything else is a syntax error.
ParseFloat(v) ==
    IF v # <<>> /\ \A i \in 1..Len(v) : v[i] \in DigitChars
    THEN [err |-> FALSE, value |-> ParseDigits(v, 0), text |-> ""]
    ELSE [err |-> TRUE, value |-> 0,
          text |-> "strconv.ParseFloat: parsing " \o Quote(Join(v, ""))
                   \o ": invalid syntax"]

\* The zero values of the types involved.
NoState == [Version |-> 0, PeerCertificates |-> <<>>, VerifiedChains |-> <<>>]

NoResult == [err |-> FALSE, state |-> NoState]

NoExporter ==
    [target |-> "", prober |-> "", timeout |-> <<0, 0>>, module |-> [Prober |-> ""]]

\* Lines 220-223.
ModuleName(req) == IF req.module = "" THEN "tcp" ELSE req.module

\* Lines 232-245: timeoutSeconds, once the header is known to parse.
TimeoutSeconds(req) ==
    LET t == IF req.timeoutHeader # <<>> THEN ParseFloat(req.timeoutHeader).value
             ELSE 10
    IN  IF t = 0 THEN 10 ELSE t

\* Faulty variant of Reject: the target is checked before the module and the
\* timeout header.
RejectTargetFirst(req) ==
    IF req.target = ""
    THEN [code |-> 400, text |-> <<"Target parameter is missing">>]
    ELSE IF ModuleName(req) \notin DOMAIN Modules
    THEN [code |-> 400, text |-> <<"Unknown module ", Quote(ModuleName(req))>>]
    ELSE IF req.timeoutHeader # <<>> /\ ParseFloat(req.timeoutHeader).err
    THEN [code |-> 500,
          text |-> <<"Failed to parse timeout from Prometheus header: ",
                     ParseFloat(req.timeoutHeader).text>>]
    ELSE IF Modules[ModuleName(req)].Prober \notin Probers
    THEN [code |-> 400,
          text |-> <<"Unknown prober ", Quote(Modules[ModuleName(req)].Prober)>>]
    ELSE [code |-> 0, text |-> <<>>]

\* The http.Error call that ends probeHandler early, if any: the checks of
\* lines 224-259 in the order the code makes them.  code = 0: none, the
\* request is served.
Reject(req) ==
    IF ModuleName(req) \notin DOMAIN Modules
    THEN [code |-> 400, text |-> <<"Unknown module ", Quote(ModuleName(req))>>]
    ELSE IF req.timeoutHeader # <<>> /\ ParseFloat(req.timeoutHeader).err
    THEN [code |-> 500,
          text |-> <<"Failed to parse timeout from Prometheus header: ",
                     ParseFloat(req.timeoutHeader).text>>]
    ELSE IF req.target = ""
    THEN [code |-> 400, text |-> <<"Target parameter is missing">>]
    ELSE IF Modules[ModuleName(req)].Prober \notin Probers
    THEN [code |-> 400,
          text |-> <<"Unknown prober ", Quote(Modules[ModuleName(req)].Prober)>>]
    ELSE [code |-> 0, text |-> <<>>]

\* Lines 261-266.  timeout is time.Duration(timeoutSeconds * 1e9), in limbs.
NewExporter(req) ==
    [target |-> req.target,
     prober |-> Modules[ModuleName(req)].Prober,
     timeout |-> <<TimeoutSeconds(req), 0>>,
     module |-> Modules[ModuleName(req)]]

(***************************************************************************)
(* Inputs.                                                                 *)
(***************************************************************************)
SeqsUpTo(S, n) == UNION {[1..k -> S] : k \in 0..n}

\* 1969-12-31T23:59:58.5Z: one and a half seconds before the epoch.
TBeforeEpoch == [hi |-> 62, lo |-> 135596798, nsec |-> 500000000]

T2023 == [hi |-> 63, lo |-> 808128000, nsec |-> 0]   \* 2023-01-01T00:00:00Z

T2024 == [hi |-> 63, lo |-> 839664000, nsec |-> 0]   \* 2024-01-01T00:00:00Z

T2025 == [hi |-> 63, lo |-> 871286400, nsec |-> 0]   \* 2025-01-01T00:00:00Z

\* 9999-12-31T23:59:59Z, the "no well-defined expiry" date of RFC 5280.
T9999 == [hi |-> 315, lo |-> 537897599, nsec |-> 0]

leaf ==
    [SerialNumber |-> 1, IssuerCN |-> "CA1", SubjectCN |-> "example.com",
     DNSNames |-> <<"a.com", "b.com">>, IPAddresses |-> <<<<10, 0, 0, 1>>>>,
     EmailAddresses |-> <<>>, OrganizationalUnit |-> <<"ops">>,
     NotBefore |-> T2023, NotAfter |-> T2024]

\* Same serial number and issuer as leaf, everything else different.
reissued ==
    [SerialNumber |-> 1, IssuerCN |-> "CA1", SubjectCN |-> "other.example",
     DNSNames |-> <<>>, IPAddresses |-> <<>>,
     EmailAddresses |-> <<"ops@example.com">>, OrganizationalUnit |-> <<>>,
     NotBefore |-> ZeroTime, NotAfter |-> T2025]

\* No dates at all.
undated ==
    [SerialNumber |-> 12, IssuerCN |-> "CA1", SubjectCN |-> "",
     DNSNames |-> <<>>, IPAddresses |-> <<>>, EmailAddresses |-> <<>>,
     OrganizationalUnit |-> <<>>, NotBefore |-> ZeroTime, NotAfter |-> ZeroTime]

\* leaf's serial number under another issuer; valid from before the epoch
\* to a date outside the int64 nanosecond range.
root ==
    [SerialNumber |-> 1, IssuerCN |-> "CA2", SubjectCN |-> "CA2",
     DNSNames |-> <<>>, IPAddresses |-> <<>>, EmailAddresses |-> <<>>,
     OrganizationalUnit |-> <<>>, NotBefore |-> TBeforeEpoch, NotAfter |-> T9999]

CertPool == {leaf, reissued, undated, root}

\* The certificates a peer presents.
PeerPool == {leaf, reissued, root}

\* Verified chains: two chains expiring in 2024 (one holding a duplicate), one
\* expiring in 2025 (its first certificate undated, its earliest expiry
\* last), one without any expiry, and the empty chain.  No not-after lies
\* before the zero time (year 1): certificate verification admits no expired
\* certificate into a verified chain.
ChainPool ==
    {<<leaf, root>>, <<reissued, leaf>>, <<undated, root, reissued>>,
     <<undated>>, <<>>}

Versions == {771, 768}

ProbeResults ==
    {[err |-> TRUE, state |-> NoState]}
    \cup
    {[err |-> FALSE,
      state |-> [Version |-> v, PeerCertificates |-> pcs, VerifiedChains |-> vcs]] :
        v \in Versions, pcs \in SeqsUpTo(PeerPool, MaxPeerCerts),
        vcs \in SeqsUpTo(ChainPool, MaxChains)}

Requests ==
    [module : {"", "tcp", "legacy", "nope"},
     target : {"", "example.com:443"},
     timeoutHeader : {<<>>, <<"5">>, <<"0">>, <<"a", "b", "c">>}]

(***************************************************************************)
(* The state machine of one request.                                       *)
(***************************************************************************)
Init ==
    /\ pc = "idle"
    /\ request = [module |-> "", target |-> "", timeoutHeader |-> <<>>]
    /\ status = 0
    /\ body = <<>>
    /\ exporter = NoExporter
    /\ probeCalls = 0
    /\ result = NoResult
    /\ ranked = <<>>
    /\ samples = <<>>
    /\ uniqIn = <<>>
    /\ uniqR = <<>>
    /\ upc = "unused"

\* probeHandler for one request, up to and including the response.  When no
\* check rejects the request, h.ServeHTTP gathers the registry, which runs
\* Collect once: the prober is invoked, returns res, and the sort leaves the
\* verified chains in order p.
probeHandler ==
    /\ pc = "idle"
    /\ \E req \in Requests :
        /\ request' = req
        /\ IF Reject(req).code # 0
           THEN /\ status' = Reject(req).code
                /\ body' = Reject(req).text
                /\ UNCHANGED <<exporter, probeCalls, result, ranked, samples>>
           ELSE \E res \in ProbeResults :
                \E p \in (IF ReachesSort(res) THEN SortSlice(res.state.VerifiedChains)
                          ELSE {<<>>}) :
                    /\ exporter' = NewExporter(req)
                    /\ probeCalls' = probeCalls + 1
                    /\ result' = res
                    /\ ranked' = p
                    /\ samples' = Collect(NewExporter(req), res, p)
                    /\ status' = 200
                    /\ body' = <<>>
    /\ pc' = "done"
    /\ UNCHANGED <<uniqIn, uniqR, upc>>

Next == probeHandler

Spec == Init /\ [][Next]_vars

(***************************************************************************)
(* uniq on its own: any certificate sequence in, its return value out.     *)
(***************************************************************************)
InitUniq ==
    /\ pc = "unused"
    /\ request = [module |-> "", target |-> "", timeoutHeader |-> <<>>]
    /\ status = 0
    /\ body = <<>>
    /\ exporter = NoExporter
    /\ probeCalls = 0
    /\ result = NoResult
    /\ ranked = <<>>
    /\ samples = <<>>
    /\ uniqIn \in SeqsUpTo(CertPool, MaxUniqLen)
    /\ uniqR = <<>>
    /\ upc = "call"

uniqCall ==
    /\ upc = "call"
    /\ uniqR' = uniq(uniqIn)
    /\ upc' = "returned"
    /\ UNCHANGED <<pc, request, status, body, exporter, probeCalls, result,
                   ranked, samples, uniqIn>>

NextUniq == uniqCall

SpecUniq == InitUniq /\ [][NextUniq]_vars

(***************************************************************************)
(* Vocabulary of the properties.                                           *)
(***************************************************************************)
\* The response has been written.
Done == pc = "done"

\* Collect ran: the request passed every check of probeHandler.
Collected == pc = "done" /\ probeCalls = 1

\* The Identity Key of a certificate.
IdentityKey(cert) == <<Itoa(cert.SerialNumber), cert.IssuerCN>>

\* The effective expiry of a chain as the specification defines it: the
\* minimum non-zero not-after, or the zero timestamp when there is none.
EffectiveExpiry(chain) ==
    LET nz == {chain[i].NotAfter : i \in {k \in 1..Len(chain) : ~IsZero(chain[k].NotAfter)}}
    IN  IF nz = {} THEN ZeroTime
        ELSE CHOOSE t \in nz : \A u \in nz : ~Before(u, t)

\* The whole seconds between the Unix epoch and t, the part of a second
\* discarded, as a mathematical integer.
WholeSeconds(t) == DivE9(ExactNanos(t))

\* The verified chain at 1-based position k of the sorted slice.
RankedChain(k) == result.state.VerifiedChains[ranked[k]]

\* Positions of the samples with this metric name and these leading labels.
SamplesWith(name, leading) ==
    {n \in 1..Len(samples) :
        /\ samples[n].name = name
        /\ Len(samples[n].labelValues) >= Len(leading)
        /\ \A m \in 1..Len(leading) : samples[n].labelValues[m] = leading[m]}

CertMetricNames ==
    {"ssl_cert_not_before", "ssl_cert_not_after",
     "ssl_verified_cert_not_before", "ssl_verified_cert_not_after",
     "ssl_verfied_cert_not_after"}

VersionStrings == {"TLS 1.0", "TLS 1.1", "TLS 1.2", "TLS 1.3", "unknown"}

ProberSampleExpected ==
    [name |-> "ssl_prober", labelNames |-> <<"prober">>,
     labelValues |-> <<exporter.module.Prober>>, value |-> Gauge(1)]

ConnectSampleExpected(v) ==
    [name |-> "ssl_tls_connect_success", labelNames |-> <<>>,
     labelValues |-> <<>>, value |-> Gauge(v)]

\* The body written by http.Error holds this text.
BodyContains(text) == \E n \in 1..Len(body) : body[n] = text

(***************************************************************************)
(* C1.  When the probe function returns an error, Collect emits exactly    *)
(* two samples, ssl_prober = 1 labelled with the module's prober and then  *)
(* ssl_tls_connect_success = 0: no version sample, no certificate sample.  *)
(***************************************************************************)
C1_ProbeErrorSamples ==
    (Collected /\ result.err) =>
        /\ samples = <<ProberSampleExpected, ConnectSampleExpected(0)>>
        /\ \A n \in 1..Len(samples) :
               samples[n].name \notin CertMetricNames \cup {"ssl_tls_version_info"}

C1_Witness ==
    /\ Collected /\ result.err
    /\ Len(samples) = 2
    /\ samples[1].labelValues = <<"tcp">>

(***************************************************************************)
(* C2.  As claimed: when the probe succeeds with an empty peer chain, the  *)
(* samples are exactly ssl_prober = 1 and ssl_tls_connect_success = 0,     *)
(* whatever the verified chains hold.                                      *)
(***************************************************************************)
C2_Original ==
    (Collected /\ ~result.err /\ Len(result.state.PeerCertificates) = 0) =>
        samples = <<ProberSampleExpected, ConnectSampleExpected(0)>>

(***************************************************************************)
(* C2, amended.  When the probe succeeds with an empty peer chain, the     *)
(* samples are exactly ssl_prober = 1, ssl_tls_version_info = 1 (labelled  *)
(* with the version string) and ssl_tls_connect_success = 0, in that       *)
(* order; no certificate sample is emitted, whatever the verified chains   *)
(* hold.                                                                   *)
(***************************************************************************)
C2_Amended ==
    (Collected /\ ~result.err /\ Len(result.state.PeerCertificates) = 0) =>
        /\ Len(samples) = 3
        /\ samples[1] = ProberSampleExpected
        /\ samples[2].name = "ssl_tls_version_info"
        /\ samples[2].labelNames = <<"version">>
        /\ samples[2].labelValues[1] \in VersionStrings
        /\ samples[2].value = Gauge(1)
        /\ samples[3] = ConnectSampleExpected(0)
        /\ \A n \in 1..Len(samples) : samples[n].name \notin CertMetricNames

C2_Witness ==
    /\ Collected /\ ~result.err
    /\ Len(result.state.PeerCertificates) = 0
    /\ Len(result.state.VerifiedChains) = 2
    /\ Len(result.state.VerifiedChains[1]) = 2
    /\ Len(samples) = 3

(***************************************************************************)
(* C3.  uniq(x) is the subsequence of x made of the first occurrence of    *)
(* each Identity Key: every key of x appears exactly once in the output,   *)
(* the certificate kept for a key is the earliest one carrying it, and the *)
(* survivors keep their relative order.                                    *)
(***************************************************************************)
C3_UniqFirstOccurrences ==
    upc = "returned" =>
        LET firsts == {i \in 1..Len(uniqIn) :
                          \A j \in 1..(i - 1) :
                              IdentityKey(uniqIn[j]) # IdentityKey(uniqIn[i])}
        IN  /\ Len(uniqR) = Cardinality(firsts)
            /\ \A i \in firsts :
                   uniqR[Cardinality({j \in firsts : j < i}) + 1] = uniqIn[i]
            /\ \A i \in 1..Len(uniqIn) :
                   Cardinality({k \in 1..Len(uniqR) :
                                   IdentityKey(uniqR[k]) = IdentityKey(uniqIn[i])}) = 1

C3_Witness ==
    /\ upc = "returned"
    /\ Len(uniqIn) = 3
    /\ IdentityKey(uniqIn[1]) = IdentityKey(uniqIn[3])
    /\ uniqIn[1] # uniqIn[3]
    /\ IdentityKey(uniqIn[2]) # IdentityKey(uniqIn[1])
    /\ uniqR = <<uniqIn[1], uniqIn[2]>>

(***************************************************************************)
(* C4.  After ranking, a chain whose effective expiry is strictly later    *)
(* than another's is placed before it, whatever the input order; a chain   *)
(* without any non-zero not-after (an empty chain included) is placed      *)
(* after every chain with a non-zero effective expiry.                     *)
(***************************************************************************)
C4_RankedByExpiryDescending ==
    (Collected /\ ReachesSort(result)) =>
        /\ Len(ranked) = Len(result.state.VerifiedChains)
        /\ {ranked[k] : k \in 1..Len(ranked)} = 1..Len(result.state.VerifiedChains)
        /\ \A a, b \in 1..Len(ranked) :
               /\ After(EffectiveExpiry(RankedChain(a)), EffectiveExpiry(RankedChain(b)))
                      => a < b
               /\ (IsZero(EffectiveExpiry(RankedChain(a)))
                   /\ ~IsZero(EffectiveExpiry(RankedChain(b)))) => b < a

C4_Witness ==
    /\ Collected /\ ReachesSort(result)
    /\ Len(result.state.VerifiedChains) = 2
    /\ result.state.VerifiedChains[1] = <<undated>>
    /\ EffectiveExpiry(result.state.VerifiedChains[2]) = T2025
    /\ ranked = <<2, 1>>

C6_VerifiedSamples ==
    (Collected /\ ReachesSort(result)) =>
        /\ \A k \in 1..Len(ranked) :
           \A c \in 1..Len(uniq(RankedChain(k))) :
               LET cert == uniq(RankedChain(k))[c]
                   lead == <<Itoa(k - 1)>> \o IdentityKey(cert)
               IN  /\ ~IsZero(cert.NotAfter) =>
                          Cardinality(SamplesWith("ssl_verified_cert_not_after", lead)) = 1
                   /\ ~IsZero(cert.NotBefore) =>
                          Cardinality(SamplesWith("ssl_verified_cert_not_before", lead)) = 1
        /\ \A n \in 1..Len(samples) :
               (samples[n].labelNames # <<>> /\ samples[n].labelNames[1] = "chain_no") =>
                   /\ samples[n].name \in {"ssl_verified_cert_not_after",
                                           "ssl_verified_cert_not_before"}
                   /\ samples[n].labelNames =
                          <<"chain_no", "serial_no", "issuer_cn", "cn", "dnsnames",
                            "ips", "emails", "ou">>

C8_RejectionsAre4xx ==
    (Done /\ exporter = NoExporter) =>
        /\ status \in 400..499
        /\ probeCalls = 0
        /\ samples = <<>>

(***************************************************************************)
(* C9.  The value of every certificate timestamp sample is the number of   *)
(* whole seconds between the Unix epoch and the (non-zero) timestamp, over *)
(* the whole range a certificate can carry.                                *)
(***************************************************************************)
C9_ValuesAreEpochSeconds ==
    (Collected /\ ReachesSort(result)) =>
        /\ \A c \in 1..Len(uniq(result.state.PeerCertificates)) :
               LET cert == uniq(result.state.PeerCertificates)[c]
                   lead == IdentityKey(cert)
               IN  /\ \A n \in SamplesWith(notAfter.fqName, lead) :
                          samples[n].value = WholeSeconds(cert.NotAfter)
                   /\ \A n \in SamplesWith(notBefore.fqName, lead) :
                          samples[n].value = WholeSeconds(cert.NotBefore)
        /\ \A k \in 1..Len(ranked) :
           \A c \in 1..Len(uniq(RankedChain(k))) :
               LET cert == uniq(RankedChain(k))[c]
                   lead == <<Itoa(k - 1)>> \o IdentityKey(cert)
               IN  /\ \A n \in SamplesWith(verifiedNotAfter.fqName, lead) :
                          samples[n].value = WholeSeconds(cert.NotAfter)
                   /\ \A n \in SamplesWith(verifiedNotBefore.fqName, lead) :
                          samples[n].value = WholeSeconds(cert.NotBefore)

(***************************************************************************)
(* C10.  Within one Collect pass no two samples share both the metric name *)
(* and the label values; ssl_prober, ssl_tls_version_info and              *)
(* ssl_tls_connect_success are each emitted at most once.                  *)
(***************************************************************************)
C10_NoDuplicateSamples ==
    Collected =>
        /\ \A m, n \in 1..Len(samples) :
               (m # n) => ~(/\ samples[m].name = samples[n].name
                            /\ samples[m].labelValues = samples[n].labelValues)
        /\ \A name \in {"ssl_prober", "ssl_tls_version_info", "ssl_tls_connect_success"} :
               Cardinality({n \in 1..Len(samples) : samples[n].name = name}) <= 1

C10_Witness ==
    /\ Collected /\ ReachesSort(result)
    /\ result.state.PeerCertificates = <<leaf, reissued>>
    /\ result.state.VerifiedChains = <<<<reissued, leaf>>, <<leaf, root>>>>
    /\ Len(samples) = 10

=============================================================================
